---- MODULE Spec2Model ----
(***************************************************************************)
(* Frac Fluid Calculation Tool (src/interface.py): PDF text extraction,    *)
(* the line merger, the marker-based field extractor, the calculation      *)
(* engine, the single-well result handling and the multi-well batch loop.  *)
(*                                                                         *)
(* Text is modelled with TLA+ strings (ASCII letters, digits, blank, tab   *)
(* and newline).  Python floats are modelled as exact rationals n/d; None, *)
(* not-a-number and a raised exception are values of their own kind.       *)
(***************************************************************************)
EXTENDS Integers, Sequences, FiniteSets, TLC

VARIABLES
    uploaded_file,   \* single-well uploader: the page texts of the uploaded PDF
    values,          \* the dict "values" of lines 191-201
    inputs,          \* the sidebar widgets of lines 203-217
    result,          \* the dict returned by calculate at line 222
    warned,          \* whether st.warning of line 240 was shown
    df,              \* the rows of the DataFrame of line 243
    show_batch,      \* st.session_state.show_batch
    uploaded_files,  \* multi-well uploader: the uploaded PDFs, in order
    all_results,     \* the list all_results of line 294
    errors,          \* the st.error messages of line 309, in order
    batch_df         \* the rows of the DataFrame of line 312

vars == <<uploaded_file, values, inputs, result, warned, df,
          show_batch, uploaded_files, all_results, errors, batch_df>>

extractVars == <<uploaded_file, values>>
calcVars == <<inputs, result, warned, df>>
batchVars == <<show_batch, uploaded_files, all_results, errors, batch_df>>

----------------------------------------------------------------------------
(* Bounds of the model *)

MaxPages == 3
MaxFiles == 3
MaxSlotsUsed == 2

----------------------------------------------------------------------------
(* Numbers: Python float/int as exact rationals, None, nan, exceptions *)

None == [k |-> "None", n |-> 0, d |-> 1]
NaN == [k |-> "nan", n |-> 0, d |-> 1]
TypeError == [k |-> "TypeError", n |-> 0, d |-> 1]
ZeroDivisionError == [k |-> "ZeroDivisionError", n |-> 0, d |-> 1]
NoValue == [k |-> "undefined", n |-> 0, d |-> 1]

IsErr(x) == x.k \in {"TypeError", "ZeroDivisionError"}
IsNum(x) == x.k = "num"

Abs(i) == IF i < 0 THEN -i ELSE i

Min(S) == CHOOSE x \in S : \A y \in S : x <= y

RECURSIVE gcd(_, _)
gcd(a, b) == IF b = 0 THEN a ELSE gcd(b, a % b)

Rat(n, d) ==
    LET g == gcd(Abs(n), d)
    IN  [k |-> "num", n |-> n \div g, d |-> d \div g]

Num(i) == Rat(i, 1)

\* x + y
PyAdd(x, y) ==
    IF IsErr(x) THEN x
    ELSE IF IsErr(y) THEN y
    ELSE IF ~IsNum(x) \/ ~IsNum(y) THEN TypeError
    ELSE LET g == gcd(x.d, y.d)
         IN  Rat(x.n * (y.d \div g) + y.n * (x.d \div g), (x.d \div g) * y.d)

\* x * y
PyMul(x, y) ==
    IF IsErr(x) THEN x
    ELSE IF IsErr(y) THEN y
    ELSE IF ~IsNum(x) \/ ~IsNum(y) THEN TypeError
    ELSE LET g1 == gcd(Abs(x.n), y.d)
             g2 == gcd(Abs(y.n), x.d)
         IN  Rat((x.n \div g1) * (y.n \div g2), (x.d \div g2) * (y.d \div g1))

\* x - y
PySub(x, y) == PyAdd(x, PyMul(Num(-1), y))

\* x / y
PyDiv(x, y) ==
    IF IsErr(x) THEN x
    ELSE IF IsErr(y) THEN y
    ELSE IF ~IsNum(x) \/ ~IsNum(y) THEN TypeError
    ELSE IF y.n = 0 THEN ZeroDivisionError
    ELSE PyMul(x, [k |-> "num", n |-> IF y.n < 0 THEN -y.d ELSE y.d, d |-> Abs(y.n)])

\* x > 0
PyGtZero(x) == IsNum(x) /\ x.n > 0

\* x < y and x > y on numbers
Lt(x, y) == x.n * y.d < y.n * x.d
Gt(x, y) == Lt(y, x)

\* the truth value of x in "x or 0" and "... if x else ..."
Truthy(x) == ~(x.k = "None" \/ (x.k = "num" /\ x.n = 0))

\* x or 0
OrZero(x) == IF Truthy(x) THEN x ELSE Num(0)

RECURSIVE Pow10(_)
Pow10(k) == IF k = 0 THEN 1 ELSE 10 * Pow10(k - 1)

\* <<q, r>>: q = floor(q0.r0 scaled by 10^k) by long division by d
RECURSIVE DivDigits(_, _, _, _)
DivDigits(q, r, d, k) ==
    IF k = 0 THEN <<q, r>>
    ELSE DivDigits(q * 10 + ((r * 10) \div d), (r * 10) % d, d, k - 1)

\* the number a "{x:.kf}" format prints: x rounded to k decimals, ties to even
Round(x, k) ==
    LET qr == DivDigits(x.n \div x.d, x.n % x.d, x.d, k)
        q == qr[1]
        r == qr[2]
        up == (2 * r > x.d) \/ (2 * r = x.d /\ q % 2 = 1)
    IN  Rat(IF up THEN q + 1 ELSE q, Pow10(k))

----------------------------------------------------------------------------
(* Text: str.strip, str.lower, str.startswith, "in", str.splitlines *)

Char(s, i) == SubSeq(s, i, i)

IsSpace(c) == c \in {" ", "\t", "\n"}

Digits == <<"0", "1", "2", "3", "4", "5", "6", "7", "8", "9">>
DigitChars == {Digits[i] : i \in 1..10}

\* the lower-case letter of each upper-case letter
LowerOf ==
    [A |-> "a", B |-> "b", C |-> "c", D |-> "d", E |-> "e", F |-> "f", G |-> "g",
     H |-> "h", I |-> "i", J |-> "j", K |-> "k", L |-> "l", M |-> "m", N |-> "n",
     O |-> "o", P |-> "p", Q |-> "q", R |-> "r", S |-> "s", T |-> "t", U |-> "u",
     V |-> "v", W |-> "w", X |-> "x", Y |-> "y", Z |-> "z"]

IsDigit(c) == c \in DigitChars
DigitVal(c) == (CHOOSE i \in 1..10 : Digits[i] = c) - 1

LowerChar(c) == IF c \in DOMAIN LowerOf THEN LowerOf[c] ELSE c

\* s.lower(), character by character
RECURSIVE lower(_)
lower(s) ==
    IF Len(s) = 0 THEN ""
    ELSE IF Len(s) = 1 THEN LowerChar(s)
    ELSE lower(SubSeq(s, 1, Len(s) \div 2)) \o lower(SubSeq(s, Len(s) \div 2 + 1, Len(s)))

RECURSIVE lstrip(_)
lstrip(s) ==
    IF Len(s) > 0 /\ IsSpace(Char(s, 1)) THEN lstrip(SubSeq(s, 2, Len(s))) ELSE s

RECURSIVE rstrip(_)
rstrip(s) ==
    IF Len(s) > 0 /\ IsSpace(Char(s, Len(s))) THEN rstrip(SubSeq(s, 1, Len(s) - 1)) ELSE s

strip(s) == rstrip(lstrip(s))

startswith(s, prefix) ==
    Len(s) >= Len(prefix) /\ SubSeq(s, 1, Len(prefix)) = prefix

\* pattern in s
contains(pattern, s) ==
    \E i \in 1..(Len(s) - Len(pattern) + 1) : SubSeq(s, i, i + Len(pattern) - 1) = pattern

\* text.splitlines(): split at "\n"; no empty last line after a final "\n"
RECURSIVE SplitFrom(_, _)
SplitFrom(text, start) ==
    IF start > Len(text) THEN <<>>
    ELSE LET breaks == {i \in start..Len(text) : Char(text, i) = "\n"}
         IN  IF breaks = {} THEN <<SubSeq(text, start, Len(text))>>
             ELSE <<SubSeq(text, start, Min(breaks) - 1)>> \o SplitFrom(text, Min(breaks) + 1)

splitlines(text) == SplitFrom(text, 1)

\* "\n".join(lines)
RECURSIVE join(_)
join(lines) ==
    IF Len(lines) = 0 THEN ""
    ELSE IF Len(lines) = 1 THEN lines[1]
    ELSE lines[1] \o "\n" \o join(Tail(lines))

\* the index after the run of digits that starts at i
RECURSIVE DigitRunEnd(_, _)
DigitRunEnd(s, i) ==
    IF i <= Len(s) /\ IsDigit(Char(s, i)) THEN DigitRunEnd(s, i + 1) ELSE i

\* re.findall(r"\d+(?:\.\d+)?", s): leftmost, non-overlapping, greedy
RECURSIVE FindAllFrom(_, _)
FindAllFrom(s, i) ==
    LET digits == {b \in i..Len(s) : IsDigit(Char(s, b))}
    IN  IF digits = {} THEN <<>>
        ELSE LET b == Min(digits)
                 j == DigitRunEnd(s, b)
                 frac == j + 1 <= Len(s) /\ Char(s, j) = "." /\ IsDigit(Char(s, j + 1))
                 e == IF frac THEN DigitRunEnd(s, j + 1) ELSE j
             IN  <<SubSeq(s, b, e - 1)>> \o FindAllFrom(s, e)

findall(s) == FindAllFrom(s, 1)

\* int(token) of a run of digits
RECURSIVE ParseDigits(_, _)
ParseDigits(s, acc) ==
    IF Len(s) = 0 THEN acc
    ELSE ParseDigits(SubSeq(s, 2, Len(s)), acc * 10 + DigitVal(Char(s, 1)))

\* float(token) of a token of findall
float(token) ==
    LET j == DigitRunEnd(token, 1)
    IN  IF j > Len(token)
        THEN Num(ParseDigits(token, 0))
        ELSE Rat(ParseDigits(SubSeq(token, 1, j - 1) \o SubSeq(token, j + 1, Len(token)), 0),
                 Pow10(Len(token) - j))

----------------------------------------------------------------------------
(* extract_values_from_pdf: line extractor, line merger, field extractor *)

\* lines 75-80: the lines of every page that yields text, in page order
RECURSIVE ExtractLines(_)
ExtractLines(pages) ==
    IF Len(pages) = 0 THEN <<>>
    ELSE (IF pages[1] # "" THEN splitlines(pages[1]) ELSE <<>>) \o ExtractLines(Tail(pages))

\* a variant of line 90 that compares with startswith instead of ==
HclPairStartsWith(current, next_line) ==
    startswith(lower(current), "hydrochloric") /\ startswith(lower(next_line), "acid")

\* line 90
HclPair(current, next_line) ==
    lower(current) = "hydrochloric" /\ startswith(lower(next_line), "acid")

\* line 93
SilicaPair(current, next_line) ==
    lower(current) = "crystalline" /\ startswith(lower(next_line), "silica")

\* lines 84-97: the loop over range(len(raw_lines) - 1), i counted from 0
RECURSIVE MergeLoop(_, _, _, _)
MergeLoop(raw_lines, i, skip_next, fixed_lines) ==
    IF i >= Len(raw_lines) - 1
    THEN [skip_next |-> skip_next, fixed_lines |-> fixed_lines]
    ELSE IF skip_next
    THEN MergeLoop(raw_lines, i + 1, FALSE, fixed_lines)
    ELSE LET current == strip(raw_lines[i + 1])
             next_line == strip(raw_lines[i + 2])
         IN  IF HclPair(current, next_line)
             THEN MergeLoop(raw_lines, i + 1, TRUE,
                            Append(fixed_lines, current \o " " \o next_line))
             ELSE IF SilicaPair(current, next_line)
             THEN MergeLoop(raw_lines, i + 1, TRUE,
                            Append(fixed_lines, current \o " " \o next_line))
             ELSE MergeLoop(raw_lines, i + 1, FALSE, Append(fixed_lines, current))

\* a variant of lines 98-99 that appends the last line even after a merge
FinalLineAlways(raw_lines, skip_next, fixed_lines) ==
    IF Len(raw_lines) > 0
    THEN Append(fixed_lines, strip(raw_lines[Len(raw_lines)]))
    ELSE fixed_lines

\* lines 98-99
FinalLine(raw_lines, skip_next, fixed_lines) ==
    IF ~skip_next /\ Len(raw_lines) > 0
    THEN Append(fixed_lines, strip(raw_lines[Len(raw_lines)]))
    ELSE fixed_lines

\* lines 82-99
MergeLines(raw_lines) ==
    LET loop == MergeLoop(raw_lines, 0, FALSE, <<>>)
    IN  FinalLine(raw_lines, loop.skip_next, loop.fixed_lines)

\* a variant of line 106 that takes nums[0]
FirstToken(nums) == nums[1]

\* nums[-1]
LastToken(nums) == nums[Len(nums)]

\* lines 101-107
RECURSIVE find_number(_, _)
find_number(pattern, fixed_lines) ==
    IF Len(fixed_lines) = 0 THEN None
    ELSE IF contains(pattern, fixed_lines[1])
    THEN IF Len(findall(fixed_lines[1])) > 0
         THEN float(LastToken(findall(fixed_lines[1])))
         ELSE find_number(pattern, Tail(fixed_lines))
    ELSE find_number(pattern, Tail(fixed_lines))

\* lines 109-115
RECURSIVE find_by_cas(_, _)
find_by_cas(cas, fixed_lines) ==
    IF Len(fixed_lines) = 0 THEN None
    ELSE IF contains(cas, fixed_lines[1])
    THEN IF Len(findall(fixed_lines[1])) > 0
         THEN float(LastToken(findall(fixed_lines[1])))
         ELSE find_by_cas(cas, Tail(fixed_lines))
    ELSE find_by_cas(cas, Tail(fixed_lines))

\* the index of the first character at or after i that is not \s
RECURSIVE SkipSpaces(_, _)
SkipSpaces(text, i) ==
    IF i <= Len(text) /\ IsSpace(Char(text, i)) THEN SkipSpaces(text, i + 1) ELSE i

HeaderPhrase == "total base water volume"

\* the colons q at which r".*?:\s*(\d+)" matches after the phrase found at p
ColonsAfter(text, p) ==
    {q \in (p + Len(HeaderPhrase))..Len(text) :
        /\ \A i \in (p + Len(HeaderPhrase))..(q - 1) : Char(text, i) # "\n"
        /\ Char(text, q) = ":"
        /\ SkipSpaces(text, q + 1) <= Len(text)
        /\ IsDigit(Char(text, SkipSpaces(text, q + 1)))}

\* lines 117-121 and 124: re.search(..., re.IGNORECASE) and int(group(1))
TotalWater(text) ==
    LET starts == {p \in 1..Len(text) :
                     /\ p + Len(HeaderPhrase) - 1 <= Len(text)
                     /\ lower(SubSeq(text, p, p + Len(HeaderPhrase) - 1)) = HeaderPhrase
                     /\ ColonsAfter(text, p) # {}}
    IN  IF starts = {} THEN None
        ELSE LET r == SkipSpaces(text, Min(ColonsAfter(text, Min(starts))) + 1)
             IN  Num(ParseDigits(SubSeq(text, r, DigitRunEnd(text, r) - 1), 0))

\* lines 74-130; file is the PDF's page texts
extract_values_from_pdf(file) ==
    LET fixed_lines == MergeLines(ExtractLines(file))
    IN  [total_water_volume |-> TotalWater(join(fixed_lines)),
         water_percent |-> find_number("Water 7732-18-5", fixed_lines),
         hcl_percent |-> find_by_cas("7647-01-0", fixed_lines),
         proppant_percent |-> find_by_cas("14808-60-7", fixed_lines),
         gas_percent |-> Num(0),
         raw_lines |-> fixed_lines]

\* lines 191-198
DefaultValues ==
    [total_water_volume |-> None,
     water_percent |-> None,
     hcl_percent |-> None,
     proppant_percent |-> None,
     gas_percent |-> Num(0),
     raw_lines |-> <<>>]

----------------------------------------------------------------------------
(* Single-well mode: the PDFs of the model *)

NoFile == [present |-> FALSE, pages |-> <<>>]

\* the page texts a PDF of the model is made of
PageTexts ==
    {"",
     "Hydrochloric",
     "  hydroCHLORIC\t",
     "Acid 7647-01-0 10.5 15.0",
     "Crystalline",
     "Silica 14808-60-7 9.5",
     "Water 7732-18-5 90.123",
     "Water 7732-18-5 0",
     "Hydrochloric Acid 7647-01-0 1.5",
     " ",
     "Total Base Water Volume (gal): 100000\nCRYSTALLINE\n silica 14808-60-7 3"}

Documents == UNION {[1..n -> PageTexts] : n \in 0..MaxPages}

----------------------------------------------------------------------------
(* calculate (lines 133-184) *)

\* line 134: 8.3454
WATER_DENSITY_LBPGAL == Rat(83454, 10000)

\* a variant of line 135 that takes the acid to be as dense as water
WaterDensityAsHcl == Rat(83454, 10000)

\* line 135: 8.95
HCL_DENSITY_LBPGAL == Rat(895, 100)

\* line 136
GALLONS_PER_BBL == 42

\* lines 150 and 164
LBS_PER_TON == 2000

\* line 160: 13.803
SCF_PER_LB == Rat(13803, 1000)

NoExc == ""

\* the remarks of lines 161, 165 and 167; the arrow and the subscript 2 of the source
\* texts are written in ASCII, and the formatted numbers are kept beside the text
NoGasText == "No gas contribution reported."
NitrogenText == "Nitrogen included at {gas_percent:.2f}% -> {nitrogen_volume_scf:.0f} SCF estimated."
CO2Text == "CO2 included at {gas_percent:.2f}% -> {co2_weight_tons:.2f} tons estimated."

NoRemark == [text |-> "", pct |-> NoValue, est |-> NoValue]

\* what a call that raised leaves: an exception and no dict
Raised(e) ==
    [exc |-> e,
     total_mass_percent |-> NoValue,
     total_water_weight |-> NoValue,
     total_acid_weight |-> NoValue,
     total_acid_volume_gal |-> NoValue,
     total_acid_volume_bbl |-> NoValue,
     total_ff_fluid_volume_gal |-> NoValue,
     total_ff_fluid_volume_bbl |-> NoValue,
     total_proppant_weight |-> NoValue,
     proppant_weight_tons |-> NoValue,
     ppg |-> NoValue,
     gas_weight_lbs |-> NoValue,
     co2_weight_tons |-> NoValue,
     nitrogen_volume_scf |-> NoValue,
     remark |-> NoRemark]

\* sum(proppant_percents): 0 + p[1] + p[2] + ...
RECURSIVE SumFrom(_, _)
SumFrom(acc, seq) ==
    IF Len(seq) = 0 THEN acc ELSE SumFrom(PyAdd(acc, seq[1]), Tail(seq))

sum(seq) == SumFrom(Num(0), seq)

\* a variant of line 151 that divides whatever the volume
Unguarded(total_ff_fluid_volume_gal) == TRUE

\* line 151: "... if total_ff_fluid_volume_gal else math.nan"
PpgGuard(total_ff_fluid_volume_gal) == Truthy(total_ff_fluid_volume_gal)

\* a variant of lines 153-155 that starts the gas outputs at 0
NoGasAsZero ==
    [exc |-> NoExc,
     gas_weight_lbs |-> Num(0),
     co2_weight_tons |-> Num(0),
     nitrogen_volume_scf |-> Num(0),
     remark |-> [text |-> NoGasText, pct |-> None, est |-> None]]

\* lines 153-156 and 166-167
NoGas ==
    [exc |-> NoExc,
     gas_weight_lbs |-> None,
     co2_weight_tons |-> None,
     nitrogen_volume_scf |-> None,
     remark |-> [text |-> NoGasText, pct |-> None, est |-> None]]

GasRaised(e) ==
    [exc |-> e,
     gas_weight_lbs |-> NoValue,
     co2_weight_tons |-> NoValue,
     nitrogen_volume_scf |-> NoValue,
     remark |-> NoRemark]

\* lines 158-161
NitrogenBranch(gas_percent, total_water_weight) ==
    LET gas_weight_lbs == PyMul(PyDiv(gas_percent, Num(100)), total_water_weight)
        nitrogen_volume_scf == PyMul(gas_weight_lbs, SCF_PER_LB)
    IN  [exc |-> NoExc,
         gas_weight_lbs |-> gas_weight_lbs,
         co2_weight_tons |-> None,
         nitrogen_volume_scf |-> nitrogen_volume_scf,
         remark |-> [text |-> NitrogenText,
                     pct |-> Round(gas_percent, 2),
                     est |-> Round(nitrogen_volume_scf, 0)]]

\* lines 162-165
CO2Branch(gas_percent, total_water_weight) ==
    LET gas_weight_lbs == PyMul(PyDiv(gas_percent, Num(100)), total_water_weight)
        co2_weight_tons == PyDiv(gas_weight_lbs, Num(LBS_PER_TON))
    IN  [exc |-> NoExc,
         gas_weight_lbs |-> gas_weight_lbs,
         co2_weight_tons |-> co2_weight_tons,
         nitrogen_volume_scf |-> None,
         remark |-> [text |-> CO2Text,
                     pct |-> Round(gas_percent, 2),
                     est |-> Round(co2_weight_tons, 2)]]

\* lines 153-167; "gas_percent > 0" raises TypeError on None
GasBranch(gas_type, gas_percent, total_water_weight) ==
    IF gas_type = "Nitrogen (N2)" /\ ~IsNum(gas_percent) THEN GasRaised("TypeError")
    ELSE IF gas_type = "Nitrogen (N2)" /\ PyGtZero(gas_percent)
    THEN NitrogenBranch(gas_percent, total_water_weight)
    ELSE IF gas_type = "Carbon Dioxide (CO2)" /\ ~IsNum(gas_percent) THEN GasRaised("TypeError")
    ELSE IF gas_type = "Carbon Dioxide (CO2)" /\ PyGtZero(gas_percent)
    THEN CO2Branch(gas_percent, total_water_weight)
    ELSE NoGas

\* lines 133-184
calculate(total_water_volume, water_percent, hcl_percent, proppant_percents, gas_percent, gas_type) ==
    LET total_proppant_percent == sum(proppant_percents)
        total_mass_percent ==
            PyAdd(PyAdd(OrZero(water_percent), OrZero(hcl_percent)), total_proppant_percent)
        total_water_weight == PyMul(total_water_volume, WATER_DENSITY_LBPGAL)
        total_acid_weight ==
            IF Truthy(hcl_percent)
            THEN PyMul(PyDiv(hcl_percent, Num(100)), total_water_weight)
            ELSE Num(0)
        total_acid_volume_gal ==
            IF Truthy(total_acid_weight)
            THEN PyDiv(total_acid_weight, HCL_DENSITY_LBPGAL)
            ELSE Num(0)
        total_acid_volume_bbl ==
            IF Truthy(total_acid_volume_gal)
            THEN PyDiv(total_acid_volume_gal, Num(GALLONS_PER_BBL))
            ELSE Num(0)
        total_ff_fluid_volume_gal == PySub(total_water_volume, total_acid_volume_gal)
        total_ff_fluid_volume_bbl ==
            IF Truthy(total_ff_fluid_volume_gal)
            THEN PyDiv(total_ff_fluid_volume_gal, Num(GALLONS_PER_BBL))
            ELSE Num(0)
        total_proppant_weight ==
            IF Truthy(total_proppant_percent)
            THEN PyMul(PyDiv(total_proppant_percent, Num(100)), total_water_weight)
            ELSE Num(0)
        proppant_weight_tons ==
            IF Truthy(total_proppant_weight)
            THEN PyDiv(total_proppant_weight, Num(LBS_PER_TON))
            ELSE Num(0)
        ppg ==
            IF PpgGuard(total_ff_fluid_volume_gal)
            THEN PyDiv(total_proppant_weight, total_ff_fluid_volume_gal)
            ELSE NaN
        \* the statements of lines 138-151 in order: the first that raises ends the call
        stmts == <<total_proppant_percent, total_mass_percent, total_water_weight,
                   total_acid_weight, total_acid_volume_gal, total_acid_volume_bbl,
                   total_ff_fluid_volume_gal, total_ff_fluid_volume_bbl,
                   total_proppant_weight, proppant_weight_tons, ppg>>
        failed == {i \in 1..Len(stmts) : IsErr(stmts[i])}
    IN  IF failed # {} THEN Raised(stmts[Min(failed)].k)
        ELSE LET gas == GasBranch(gas_type, gas_percent, total_water_weight)
             IN  IF gas.exc # NoExc THEN Raised(gas.exc)
                 ELSE [exc |-> NoExc,
                       total_mass_percent |-> total_mass_percent,
                       total_water_weight |-> total_water_weight,
                       total_acid_weight |-> total_acid_weight,
                       total_acid_volume_gal |-> total_acid_volume_gal,
                       total_acid_volume_bbl |-> total_acid_volume_bbl,
                       total_ff_fluid_volume_gal |-> total_ff_fluid_volume_gal,
                       total_ff_fluid_volume_bbl |-> total_ff_fluid_volume_bbl,
                       total_proppant_weight |-> total_proppant_weight,
                       proppant_weight_tons |-> proppant_weight_tons,
                       ppg |-> ppg,
                       gas_weight_lbs |-> gas.gas_weight_lbs,
                       co2_weight_tons |-> gas.co2_weight_tons,
                       nitrogen_volume_scf |-> gas.nitrogen_volume_scf,
                       remark |-> gas.remark]

----------------------------------------------------------------------------
(* Single-well mode (lines 186-260) *)

\* line 211: range(1, 7)
NumSlots == 6

NoResult == Raised("not submitted")

\* lines 205-217: the value each sidebar widget is created with
Prefill(vals, gas_type) ==
    [total_water_volume |-> OrZero(vals.total_water_volume),
     water_percent |-> OrZero(vals.water_percent),
     hcl_percent |-> OrZero(vals.hcl_percent),
     proppant_percents |->
         [i \in 1..NumSlots |-> IF i = 1 THEN vals.proppant_percent ELSE Num(0)],
     gas_percent |-> vals.gas_percent,
     gas_type |-> gas_type]

\* a widget whose default changed is created anew; one whose default did not keeps
\* what the user entered
Rewidget(old, new, current) ==
    LET was == Prefill(old, current.gas_type)
        now == Prefill(new, current.gas_type)
    IN  [total_water_volume |->
             IF now.total_water_volume = was.total_water_volume
             THEN current.total_water_volume ELSE now.total_water_volume,
         water_percent |->
             IF now.water_percent = was.water_percent
             THEN current.water_percent ELSE now.water_percent,
         hcl_percent |->
             IF now.hcl_percent = was.hcl_percent
             THEN current.hcl_percent ELSE now.hcl_percent,
         proppant_percents |->
             [i \in 1..NumSlots |->
                 IF now.proppant_percents[i] = was.proppant_percents[i]
                 THEN current.proppant_percents[i]
                 ELSE now.proppant_percents[i]],
         gas_percent |->
             IF now.gas_percent = was.gas_percent
             THEN current.gas_percent ELSE now.gas_percent,
         gas_type |-> current.gas_type]

\* a rerun of the script in which the Calculate button was not clicked (line 221)
NotSubmitted ==
    /\ result' = NoResult
    /\ warned' = FALSE
    /\ df' = <<>>

\* a PDF is put into the empty uploader: the script reruns, lines 199-217
UploadSingle(file) ==
    /\ ~uploaded_file.present
    /\ uploaded_file' = [present |-> TRUE, pages |-> file]
    /\ values' = extract_values_from_pdf(file)
    /\ inputs' = Rewidget(values, values', inputs)
    /\ NotSubmitted
    /\ UNCHANGED batchVars

\* the PDF is removed from the uploader: the script reruns, lines 191-217
RemoveSingle ==
    /\ uploaded_file.present
    /\ uploaded_file' = NoFile
    /\ values' = DefaultValues
    /\ inputs' = Rewidget(values, DefaultValues, inputs)
    /\ NotSubmitted
    /\ UNCHANGED batchVars

\* what the user types into the sidebar
WaterVolumes == {Num(0), Num(100000)}
WaterPercents == {Num(0), Num(80), Num(90), Num(140)}
HclPercents == {Num(0), Rat(1, 2), Num(120)}
FirstProppants == {None, Num(0), Rat(19, 2)}
OtherProppants == {Num(0), Num(10)}
GasPercents == {Num(0), Num(-1), Rat(5, 2)}
GasTypes == {"None", "Nitrogen (N2)", "Carbon Dioxide (CO2)"}

\* line 205
SetTotalWaterVolume(v) ==
    /\ inputs' = [inputs EXCEPT !.total_water_volume = v]
    /\ NotSubmitted
    /\ UNCHANGED <<extractVars, batchVars>>

\* line 206
SetWaterPercent(v) ==
    /\ inputs' = [inputs EXCEPT !.water_percent = v]
    /\ NotSubmitted
    /\ UNCHANGED <<extractVars, batchVars>>

\* line 207
SetHclPercent(v) ==
    /\ inputs' = [inputs EXCEPT !.hcl_percent = v]
    /\ NotSubmitted
    /\ UNCHANGED <<extractVars, batchVars>>

\* lines 211-214: only a widget created with value=None can be left empty
SetProppant(i, v) ==
    /\ v = None => (i = 1 /\ values.proppant_percent = None)
    /\ inputs' = [inputs EXCEPT !.proppant_percents[i] = v]
    /\ NotSubmitted
    /\ UNCHANGED <<extractVars, batchVars>>

\* line 216
SetGasType(t) ==
    /\ inputs' = [inputs EXCEPT !.gas_type = t]
    /\ NotSubmitted
    /\ UNCHANGED <<extractVars, batchVars>>

\* line 217
SetGasPercent(v) ==
    /\ inputs' = [inputs EXCEPT !.gas_percent = v]
    /\ NotSubmitted
    /\ UNCHANGED <<extractVars, batchVars>>

\* a variant of line 239 that compares with <= and >=
FlagsBounds(total_mass_percent) ==
    ~Gt(total_mass_percent, Num(90)) \/ ~Lt(total_mass_percent, Num(110))

\* line 239
OutOfRange(total_mass_percent) ==
    Lt(total_mass_percent, Num(90)) \/ Gt(total_mass_percent, Num(110))

\* lines 219-245: the Calculate button is clicked; an exception ends the script run
ClickCalculate ==
    LET res == calculate(inputs.total_water_volume, inputs.water_percent,
                         inputs.hcl_percent, inputs.proppant_percents,
                         inputs.gas_percent, inputs.gas_type)
    IN  /\ result' = res
        /\ warned' = (res.exc = NoExc /\ OutOfRange(res.total_mass_percent))
        /\ df' = IF res.exc = NoExc THEN <<res>> ELSE <<>>
        /\ UNCHANGED <<inputs, extractVars, batchVars>>

----------------------------------------------------------------------------
(* Multi-well batch mode (lines 262-319) *)

FileNames == {"a.pdf", "b.pdf"}

BatchDocuments ==
    {<<>>,
     <<"Total Base Water Volume: 5000\nWater 7732-18-5 99.5">>,
     <<"Total Base Water Volume (gal): 100000\nWater 7732-18-5 90",
       "Hydrochloric\nAcid 7647-01-0 0.5\nCrystalline\nSilica 14808-60-7 9.5">>}

\* an uploaded PDF: pdfplumber reads it, or raises on it
BatchFiles ==
    [name : FileNames, readable : {TRUE}, pages : BatchDocuments]
    \cup [name : FileNames, readable : {FALSE}, pages : {<<>>}]

Batches == UNION {[1..n -> BatchFiles] : n \in 0..MaxFiles}

\* line 302
BatchProppants(vals) == <<OrZero(vals.proppant_percent)>>

\* line 306 and the except clause: exc is the exception the try body raised, if any
Row(name, calc) == [exc |-> calc.exc, File |-> name, calc |-> calc]

\* lines 298-305
CalculateRow(name, vals) ==
    Row(name, calculate(OrZero(vals.total_water_volume),
                        OrZero(vals.water_percent),
                        OrZero(vals.hcl_percent),
                        BatchProppants(vals),
                        OrZero(vals.gas_percent),
                        "None"))

\* lines 296-309: one pass of the loop body
ProcessFile(file) ==
    IF ~file.readable
    THEN Row(file.name, Raised("PDFSyntaxError"))
    ELSE CalculateRow(file.name, extract_values_from_pdf(file.pages))

\* lines 307 and 309: the row is appended, or the error is shown
Collect(row, acc) ==
    IF row.exc = NoExc
    THEN [all_results |-> Append(acc.all_results, row), errors |-> acc.errors]
    ELSE [all_results |-> acc.all_results,
          errors |-> Append(acc.errors, [File |-> row.File, exc |-> row.exc])]

\* a variant of lines 294-309 whose loop ends at the first exception
RECURSIVE BatchLoopAborts(_, _)
BatchLoopAborts(files, acc) ==
    IF Len(files) = 0 THEN acc
    ELSE IF ProcessFile(files[1]).exc # NoExc THEN Collect(ProcessFile(files[1]), acc)
    ELSE BatchLoopAborts(Tail(files), Collect(ProcessFile(files[1]), acc))

\* lines 294-309
RECURSIVE BatchLoop(_, _)
BatchLoop(files, acc) ==
    IF Len(files) = 0 THEN acc
    ELSE BatchLoop(Tail(files), Collect(ProcessFile(files[1]), acc))

\* line 294
NoRows == [all_results |-> <<>>, errors |-> <<>>]

\* lines 282-288
ClickBatchMode ==
    /\ ~show_batch
    /\ show_batch' = TRUE
    /\ NotSubmitted
    /\ UNCHANGED <<uploaded_files, all_results, errors, batch_df, inputs, extractVars>>

\* lines 290-319: PDFs are put into the empty multi-file uploader
UploadBatch(files) ==
    /\ show_batch
    /\ uploaded_files = <<>>
    /\ files # <<>>
    /\ uploaded_files' = files
    /\ \E out \in {BatchLoop(files, NoRows)} :
           /\ all_results' = out.all_results
           /\ errors' = out.errors
           /\ batch_df' = out.all_results
    /\ NotSubmitted
    /\ UNCHANGED <<show_batch, inputs, extractVars>>

\* the PDFs are removed from the multi-file uploader (line 293)
ClearBatch ==
    /\ show_batch
    /\ uploaded_files # <<>>
    /\ uploaded_files' = <<>>
    /\ all_results' = <<>>
    /\ errors' = <<>>
    /\ batch_df' = <<>>
    /\ NotSubmitted
    /\ UNCHANGED <<show_batch, inputs, extractVars>>

----------------------------------------------------------------------------
(* Specifications *)

Init ==
    /\ uploaded_file = NoFile
    /\ values = DefaultValues
    /\ inputs = Prefill(DefaultValues, "None")
    /\ result = NoResult
    /\ warned = FALSE
    /\ df = <<>>
    /\ show_batch = FALSE
    /\ uploaded_files = <<>>
    /\ all_results = <<>>
    /\ errors = <<>>
    /\ batch_df = <<>>

\* the single-well uploader
NextExtract ==
    \/ \E file \in Documents : UploadSingle(file)
    \/ RemoveSingle

\* the sidebar and the Calculate button, with no PDF uploaded
NextCalc ==
    \/ \E v \in WaterVolumes : SetTotalWaterVolume(v)
    \/ \E v \in WaterPercents : SetWaterPercent(v)
    \/ \E v \in HclPercents : SetHclPercent(v)
    \/ \E v \in FirstProppants : SetProppant(1, v)
    \/ \E i \in 2..MaxSlotsUsed, v \in OtherProppants : SetProppant(i, v)
    \/ \E t \in GasTypes : SetGasType(t)
    \/ \E v \in GasPercents : SetGasPercent(v)
    \/ ClickCalculate

\* the multi-well section
NextBatch ==
    \/ ClickBatchMode
    \/ \E files \in Batches : UploadBatch(files)
    \/ ClearBatch

SpecExtract == Init /\ [][NextExtract]_vars
SpecCalc == Init /\ [][NextCalc]_vars
SpecBatch == Init /\ [][NextBatch]_vars

----------------------------------------------------------------------------
(* Line merger: claims C1 and C2 *)

\* the prefix and suffix tokens of a chemical name split over two lines
MergePairs == {<<"hydrochloric", "acid">>, <<"crystalline", "silica">>}

Mergeable(first, second) ==
    \E pair \in MergePairs :
        /\ lower(strip(first)) = pair[1]
        /\ startswith(lower(strip(second)), pair[2])

\* the greedy, single-pass, left-to-right, non-overlapping merge
RECURSIVE GreedyMerge(_)
GreedyMerge(lines) ==
    IF Len(lines) = 0 THEN <<>>
    ELSE IF Len(lines) >= 2 /\ Mergeable(lines[1], lines[2])
    THEN <<strip(lines[1]) \o " " \o strip(lines[2])>>
         \o GreedyMerge(SubSeq(lines, 3, Len(lines)))
    ELSE <<strip(lines[1])>> \o GreedyMerge(Tail(lines))

\* C1: for every line sequence the merger's output is that of the greedy
\* single-pass merge: a "hydrochloric"/"acid..." or "crystalline"/"silica..." pair
\* is emitted once, joined by one space; every other line is emitted trimmed and in
\* order; the last line is emitted unless a merge consumed it.
C1_MergerIsGreedy ==
    /\ uploaded_file.present =>
           values.raw_lines = GreedyMerge(ExtractLines(uploaded_file.pages))
    /\ MergeLines(<<"Hydrochloric", "Acid 7647-01-0 10.5 15.0">>)
           = <<"Hydrochloric Acid 7647-01-0 10.5 15.0">>

\* a merge that consumed the last line, after a line passed through trimmed
C1_Witness ==
    /\ uploaded_file.present
    /\ ExtractLines(uploaded_file.pages)
           = <<" ", "  hydroCHLORIC\t", "Acid 7647-01-0 10.5 15.0">>
    /\ values.raw_lines = <<"", "hydroCHLORIC Acid 7647-01-0 10.5 15.0">>

\* C2: merging the merger's output again returns it unchanged.
C2_MergerIdempotent ==
    uploaded_file.present => MergeLines(values.raw_lines) = values.raw_lines

\* an output in which a pair was merged and a line starting with "acid" follows it
C2_Witness ==
    /\ uploaded_file.present
    /\ Len(values.raw_lines) = 2
    /\ Len(ExtractLines(uploaded_file.pages)) = 3
    /\ values.raw_lines[1] = "Hydrochloric Acid 7647-01-0 10.5 15.0"
    /\ startswith(lower(values.raw_lines[2]), "acid")

----------------------------------------------------------------------------
(* Field extractor: claim C3 *)

Matching(marker, lines) == {i \in 1..Len(lines) : contains(marker, lines[i])}

\* the last numeric token of the first line that contains the marker; None without one
FirstMatchLastToken(marker, lines) ==
    IF Matching(marker, lines) = {} THEN None
    ELSE LET nums == findall(lines[Min(Matching(marker, lines))])
         IN  float(nums[Len(nums)])

\* C3: water_percent, hcl_percent and proppant_percent are each the last numeric
\* token of the first merged line that contains the field's marker, whatever later
\* matching lines hold, and None (which is not a parsed 0) when no line contains it.
C3_FirstMatchLastToken ==
    /\ uploaded_file.present =>
           /\ values.water_percent
                  = FirstMatchLastToken("Water 7732-18-5", values.raw_lines)
           /\ values.hcl_percent = FirstMatchLastToken("7647-01-0", values.raw_lines)
           /\ values.proppant_percent
                  = FirstMatchLastToken("14808-60-7", values.raw_lines)
    /\ find_number("Water 7732-18-5", <<"Water 7732-18-5 90.123">>) = Rat(90123, 1000)
    /\ find_number("Water 7732-18-5", <<"Water 7732-18-5 0">>) # None

\* two lines hold the HCl marker with different last tokens, a line holds the water
\* marker with a parsed 0, and no line holds the proppant marker
C3_Witness ==
    /\ uploaded_file.present
    /\ values.raw_lines = <<"Hydrochloric Acid 7647-01-0 1.5",
                            "Water 7732-18-5 0",
                            "Acid 7647-01-0 10.5 15.0">>
    /\ values.hcl_percent = Rat(3, 2)
    /\ values.water_percent = Num(0)
    /\ values.proppant_percent = None

----------------------------------------------------------------------------
(* Calculation engine: claims C4, C5, C6 and C8 *)

\* Calculate was clicked and calculate ran on the inputs now in the widgets
Submitted == result # NoResult

ZeroIfAbsent(x) == IF x = None THEN Num(0) ELSE x

\* C4: calculate never raises, and with absent numeric fields it returns what it
\* returns when each absent field is replaced by 0.
C4_CalculateIsTotal ==
    Submitted =>
        /\ result.exc = NoExc
        /\ result = calculate(ZeroIfAbsent(inputs.total_water_volume),
                              ZeroIfAbsent(inputs.water_percent),
                              ZeroIfAbsent(inputs.hcl_percent),
                              [i \in 1..NumSlots |->
                                   ZeroIfAbsent(inputs.proppant_percents[i])],
                              ZeroIfAbsent(inputs.gas_percent),
                              inputs.gas_type)

\* C5: when the computed total FF fluid volume (total water volume minus acid
\* volume) is exactly 0 the PPG ratio is not-a-number and no division fails; when
\* it is non-zero, negative included, the ratio is proppant weight over that volume.
C5_PpgGuarded ==
    Submitted =>
        /\ result.exc # "ZeroDivisionError"
        /\ result.exc = NoExc =>
               /\ result.total_ff_fluid_volume_gal
                      = PySub(inputs.total_water_volume, result.total_acid_volume_gal)
               /\ result.total_ff_fluid_volume_gal = Num(0) => result.ppg = NaN
               /\ result.total_ff_fluid_volume_gal # Num(0) =>
                      /\ IsNum(result.ppg)
                      /\ result.ppg = PyDiv(result.total_proppant_weight,
                                            result.total_ff_fluid_volume_gal)

\* a call with proppant entered whose fluid volume came out exactly 0
C5_Witness ==
    /\ Submitted
    /\ result.exc = NoExc
    /\ inputs.proppant_percents[1] = Rat(19, 2)
    /\ result.total_ff_fluid_volume_gal = Num(0)
    /\ result.ppg = NaN

NoGasSelected == inputs.gas_type = "None" \/ ~PyGtZero(inputs.gas_percent)

\* C6: with gas type none or gas percent <= 0 all three gas outputs are null and
\* the remark states no gas contribution; with nitrogen and gas percent > 0 gas
\* weight and nitrogen volume are set and CO2 weight is null; with CO2 and gas
\* percent > 0 gas weight and CO2 weight are set and nitrogen volume is null.
C6_GasOutputs ==
    Submitted =>
        /\ NoGasSelected =>
               /\ result.gas_weight_lbs = None
               /\ result.co2_weight_tons = None
               /\ result.nitrogen_volume_scf = None
               /\ result.remark.text = NoGasText
        /\ (inputs.gas_type = "Nitrogen (N2)" /\ PyGtZero(inputs.gas_percent)) =>
               /\ IsNum(result.gas_weight_lbs)
               /\ IsNum(result.nitrogen_volume_scf)
               /\ result.co2_weight_tons = None
        /\ (inputs.gas_type = "Carbon Dioxide (CO2)" /\ PyGtZero(inputs.gas_percent)) =>
               /\ IsNum(result.gas_weight_lbs)
               /\ IsNum(result.co2_weight_tons)
               /\ result.nitrogen_volume_scf = None

\* the gas branch of every call that returns
GasOutputsOnReturn == (Submitted /\ result.exc # NoExc) \/ C6_GasOutputs

WorkedExample ==
    [total_water_volume |-> Num(100000),
     water_percent |-> Num(90),
     hcl_percent |-> Rat(1, 2),
     proppant_percents |-> [i \in 1..NumSlots |-> IF i = 1 THEN Rat(19, 2) ELSE Num(0)],
     gas_percent |-> Num(0),
     gas_type |-> "None"]

\* the fields of the worked example that are the same in both of its statements
WorkedExampleExact ==
    /\ result.exc = NoExc
    /\ result.total_mass_percent = Num(100)
    /\ result.total_water_weight = Num(834540)
    /\ result.total_acid_weight = Rat(41727, 10)
    /\ result.total_proppant_weight = Rat(792813, 10)
    /\ Round(result.proppant_weight_tons, 2) = Rat(3964, 100)

\* C8 as stated: the worked example returns acid volume 466.23 gal, FF fluid
\* volume 99533.77 gal and PPG 0.7966 at the decimals printed.
C8_WorkedExampleAsStated ==
    (Submitted /\ inputs = WorkedExample) =>
        /\ WorkedExampleExact
        /\ Round(result.total_acid_volume_gal, 2) = Rat(46623, 100)
        /\ Round(result.total_ff_fluid_volume_gal, 2) = Rat(9953377, 100)
        /\ Round(result.ppg, 4) = Rat(7966, 10000)

\* C8: the worked example returns total mass 100.0 %, water weight 834540.0 lb,
\* acid weight 4172.7 lb, proppant weight 79281.3 lb and 39.64 tons, and, at the
\* decimals printed, acid volume 466.22 gal, FF fluid volume 99533.78 gal and
\* PPG 0.7965.
C8_WorkedExample ==
    (Submitted /\ inputs = WorkedExample) =>
        /\ WorkedExampleExact
        /\ Round(result.total_acid_volume_gal, 2) = Rat(46622, 100)
        /\ Round(result.total_ff_fluid_volume_gal, 2) = Rat(9953378, 100)
        /\ Round(result.ppg, 4) = Rat(7965, 10000)

C8_Witness == Submitted /\ inputs = WorkedExample /\ result.exc = NoExc

----------------------------------------------------------------------------
(* Validator: claim C9 *)

\* C9: a result is flagged exactly when its total mass percent is below 90 or above
\* 110, the bounds themselves being in range, and the flag changes nothing of the
\* result: the table shows what calculate returned for the inputs.
C9_ValidatorAdvisory ==
    (Submitted /\ result.exc = NoExc) =>
        /\ warned <=> \/ result.total_mass_percent.n < 90 * result.total_mass_percent.d
                      \/ result.total_mass_percent.n > 110 * result.total_mass_percent.d
        /\ result = calculate(inputs.total_water_volume, inputs.water_percent,
                              inputs.hcl_percent, inputs.proppant_percents,
                              inputs.gas_percent, inputs.gas_type)
        /\ df = <<result>>

\* total mass percent 150 is flagged and the result is reported
C9_Witness ==
    /\ Submitted
    /\ result.exc = NoExc
    /\ result.total_mass_percent = Num(150)
    /\ warned
    /\ df = <<result>>

----------------------------------------------------------------------------
(* Batch mode: claims C7 and C10 *)

IsReadable(file) == file.readable
IsCorrupt(file) == ~file.readable

NamesOfFiles(files) == [i \in 1..Len(files) |-> files[i].name]
NamesOfRows(rows) == [i \in 1..Len(rows) |-> rows[i].File]

\* C7: a batch is processed to its end whatever fails in it: the result rows are
\* the documents that did not fail, in input order, each tagged with its file name,
\* and one error is recorded for each failing document, naming it.
C7_BatchIsolatesFailures ==
    uploaded_files # <<>> =>
        /\ NamesOfRows(all_results) = NamesOfFiles(SelectSeq(uploaded_files, IsReadable))
        /\ NamesOfRows(errors) = NamesOfFiles(SelectSeq(uploaded_files, IsCorrupt))
        /\ Len(all_results) + Len(errors) = Len(uploaded_files)
        /\ batch_df = all_results

\* three documents, the second corrupt: two ordered rows and one error naming it
C7_Witness ==
    /\ Len(uploaded_files) = 3
    /\ uploaded_files[1].readable /\ uploaded_files[1].name = "b.pdf"
    /\ ~uploaded_files[2].readable /\ uploaded_files[2].name = "a.pdf"
    /\ uploaded_files[3].readable /\ uploaded_files[3].name = "a.pdf"
    /\ NamesOfRows(all_results) = <<"b.pdf", "a.pdf">>
    /\ NamesOfRows(errors) = <<"a.pdf">>

\* what the row of a readable document is computed from
BatchRowOf(file) ==
    LET vals == extract_values_from_pdf(file.pages)
    IN  calculate(ZeroIfAbsent(vals.total_water_volume),
                  ZeroIfAbsent(vals.water_percent),
                  ZeroIfAbsent(vals.hcl_percent),
                  <<ZeroIfAbsent(vals.proppant_percent)>>,
                  Num(0),
                  "None")

\* C10: every batch row is computed with gas type none, gas percent 0 and one
\* proppant slot, every unset extracted field replaced by 0; so in every batch row
\* the three gas outputs are null and the remark is "No gas contribution reported.".
C10_BatchRowsHaveNoGas ==
    \A i \in 1..Len(all_results) :
        /\ i <= Len(SelectSeq(uploaded_files, IsReadable))
        /\ all_results[i].calc = BatchRowOf(SelectSeq(uploaded_files, IsReadable)[i])
        /\ all_results[i].calc.exc = NoExc
        /\ all_results[i].calc.gas_weight_lbs = None
        /\ all_results[i].calc.co2_weight_tons = None
        /\ all_results[i].calc.nitrogen_volume_scf = None
        /\ all_results[i].calc.remark.text = "No gas contribution reported."

\* a row for a document that holds no field at all, after one that holds them all
C10_Witness ==
    /\ Len(all_results) = 2
    /\ uploaded_files[1].readable /\ Len(uploaded_files[1].pages) = 2
    /\ uploaded_files[2].readable /\ uploaded_files[2].pages = <<>>
    /\ all_results[1].calc.total_proppant_weight = Rat(792813, 10)
    /\ all_results[2].calc.total_mass_percent = Num(0)
    /\ all_results[2].calc.gas_weight_lbs = None

====
